---------------------------- MODULE Spec2Model ----------------------------
(***************************************************************************)
(* A model of jeremywohl/flatten (src/flatten.go).                         *)
(*                                                                         *)
(* Go strings are sequences of one-character strings, so that key         *)
(* composition, the isJsonMap pattern, strconv.Itoa and the JSON text      *)
(* are computed character by character.  A Go interface{} value is a       *)
(* record tagged by kind: "map" (m a function from keys to values), "seq"  *)
(* (elems a sequence of values) or one of the scalar kinds "string",       *)
(* "number", "bool", "null".  A nil map carries the extra field nil.       *)
(***************************************************************************)
EXTENDS Integers, Sequences, FiniteSets, TLC

VARIABLES
    call,        \* the function that was called: "Flatten", "FlattenString", "flatten"
    nestedstr,   \* FlattenString's text argument
    nested,      \* Flatten's argument (FlattenString: the decoded text)
    prefix,      \* the prefix argument
    keyMerger,   \* the KeyMerger argument
    pc,          \* position of the call
    flatmap,     \* Flatten's accumulator, mutated in place by flatten
    stack,       \* activation records of flatten, innermost last
    result,      \* what Flatten returned: [map, err]
    resultstr,   \* what FlattenString returned: [str, err]
    decoded,     \* history: json.Unmarshal has been called
    visited      \* history: the leaf paths in the order they were assigned

vars == <<call, nestedstr, nested, prefix, keyMerger, pc, flatmap, stack,
          result, resultstr, decoded, visited>>

-----------------------------------------------------------------------------
(* Bounds of the explored inputs *)

\* largest number of nodes (containers and scalars) of a generated input
MaxNodes == 4

\* longest generated text handed to FlattenString
MaxTextLen == 3

-----------------------------------------------------------------------------
(* Values *)

Str(s) == [kind |-> "string", str |-> s]
Num(n) == [kind |-> "number", num |-> n]
Bool(b) == [kind |-> "bool", bool |-> b]
Null == [kind |-> "null"]
Map(f) == [kind |-> "map", m |-> f]
Seq0(s) == [kind |-> "seq", elems |-> s]

\* var nested map[string]interface{} : a declared and never made map
NilMap == [kind |-> "map", nil |-> TRUE, m |-> <<>>]

EmptyMap == Map(<<>>)

nil == "nil"
NotValidInputError == "Not a valid input: map or slice"
NotValidJsonInputError == "Not a valid input, must be a map"

-----------------------------------------------------------------------------
(* strconv.Itoa for the indexes range produces (never negative) *)

Digits == <<"0", "1", "2", "3", "4", "5", "6", "7", "8", "9">>

RECURSIVE Itoa(_)
Itoa(i) ==
    IF i < 10 THEN <<Digits[i + 1]>>
    ELSE Itoa(i \div 10) \o <<Digits[(i % 10) + 1]>>

-----------------------------------------------------------------------------
(* Key mergers *)

SeparatorStyle(before, middle, after) ==
    [type |-> "SeparatorStyle", Before |-> before, Middle |-> middle, After |-> after]

FuncMerger(f) == [type |-> "FuncMerger", f |-> f]

DotStyle == SeparatorStyle(<<>>, <<".">>, <<>>)
PathStyle == SeparatorStyle(<<>>, <<"/">>, <<>>)
RailsStyle == SeparatorStyle(<<"[">>, <<>>, <<"]">>)
UnderscoreStyle == SeparatorStyle(<<>>, <<"_">>, <<>>)

\* MergeKeys without the closing After
MergeKeysNoAfter(style, top, key, subkey) ==
    IF top THEN key \o subkey
    ELSE key \o style.Before \o style.Middle \o subkey

\* MergeKeys that styles the root join as well
MergeKeysNoRoot(style, top, key, subkey) ==
    key \o style.Before \o style.Middle \o subkey \o style.After

SeparatorStyleMergeKeys(style, top, key, subkey) ==
    IF top THEN key \o subkey
    ELSE key \o style.Before \o style.Middle \o subkey \o style.After

\* r1.ReplaceAllString(s, `$1$1`) with r1 = `(_)`
RECURSIVE DoubleUnderscores(_)
DoubleUnderscores(s) ==
    IF s = <<>> THEN <<>>
    ELSE (IF Head(s) = "_" THEN <<"_", "_">> ELSE <<Head(s)>>)
         \o DoubleUnderscores(Tail(s))

\* the number of "." that s starts with
RECURSIVE DotRun(_)
DotRun(s) ==
    IF s # <<>> /\ Head(s) = "." THEN 1 + DotRun(Tail(s)) ELSE 0

\* r2.ReplaceAllString(s, `$1$1`) with r2 = `(\.{2,})`
RECURSIVE DoubleDotRuns(_)
DoubleDotRuns(s) ==
    IF s = <<>> THEN <<>>
    ELSE LET n == DotRun(s) IN
         IF n >= 2
         THEN [i \in 1..(2 * n) |-> "."] \o DoubleDotRuns(SubSeq(s, n + 1, Len(s)))
         ELSE <<Head(s)>> \o DoubleDotRuns(Tail(s))

\* strings.Replace(s, ".", "_", -1)
DotsToUnderscores(s) == [i \in 1..Len(s) |-> IF s[i] = "." THEN "_" ELSE s[i]]

escapeDots(s) == DotsToUnderscores(DoubleDotRuns(DoubleUnderscores(s)))

\* the FuncMerger of TestFlatten
EscapeMerger(top, key, subkey) ==
    IF top THEN key \o escapeDots(subkey)
    ELSE key \o <<"_">> \o escapeDots(subkey)

FuncMergerMergeKeys(f, top, key, subkey) ==
    CASE f = "escapeDots" -> EscapeMerger(top, key, subkey)

\* keyMerger.MergeKeys(top, key, subkey), dispatched on the dynamic type
MergeKeys(m, top, key, subkey) ==
    IF m.type = "SeparatorStyle"
    THEN SeparatorStyleMergeKeys(m, top, key, subkey)
    ELSE FuncMergerMergeKeys(m.f, top, key, subkey)

-----------------------------------------------------------------------------
(* flatten *)

\* a type switch of flatten that a nil map falls through
flattenCaseNilFalls(v) ==
    CASE v.kind = "map" /\ "nil" \notin DOMAIN v -> "map"
      [] v.kind = "seq" -> "seq"
      [] OTHER -> "default"

\* the type switch of flatten
flattenCase(v) ==
    CASE v.kind = "map" -> "map"
      [] v.kind = "seq" -> "seq"
      [] OTHER -> "default"

\* a type switch of assign without the slice case
assignCaseMapOnly(v) == v.kind = "map"

\* a type switch of assign that takes an empty map or slice for a value
assignCaseNonEmpty(v) ==
    \/ v.kind = "map" /\ v.m # <<>>
    \/ v.kind = "seq" /\ v.elems # <<>>

\* the type switch of assign: TRUE for the case that calls flatten
assignCase(v) == v.kind \in {"map", "seq"}

\* an assignment that keeps an entry that is there already
StoreIfAbsent(fm, newKey, v) ==
    [k \in (DOMAIN fm) \cup {newKey} |-> IF k \in DOMAIN fm THEN fm[k] ELSE v]

\* flatMap[newKey] = v
Store(fm, newKey, v) ==
    [k \in (DOMAIN fm) \cup {newKey} |-> IF k = newKey THEN v ELSE fm[k]]

\* a call flatten(top, flatMap, v, key, keyMerger) about to run its switch;
\* keys and i are the state of its range loop, path is history
Frame(top, v, key, path) ==
    [top |-> top, nested |-> v, prefix |-> key,
     case |-> flattenCase(v),
     keys |-> IF flattenCase(v) = "map" THEN DOMAIN v.m ELSE {},
     i |-> 0,
     path |-> path]

Cur == stack[Len(stack)]
Below == SubSeq(stack, 1, Len(stack) - 1)

\* assign that hands its caller's top on to flatten
assignKeepsTop(cont, newKey, v, path) ==
    IF assignCase(v)
    THEN /\ stack' = Below \o <<cont, [top |-> cont.top, nested |-> v,
                                       prefix |-> newKey, case |-> flattenCase(v),
                                       keys |-> IF flattenCase(v) = "map"
                                                THEN DOMAIN v.m ELSE {},
                                       i |-> 0, path |-> path]>>
         /\ UNCHANGED <<flatmap, visited>>
    ELSE /\ flatmap' = [k \in (DOMAIN flatmap) \cup {newKey} |->
                          IF k = newKey THEN v ELSE flatmap[k]]
         /\ visited' = Append(visited, path)
         /\ stack' = Below \o <<cont>>

\* assign(newKey, v) called from the frame that continues as cont
assign(cont, newKey, v, path) ==
    IF assignCase(v)
    THEN /\ stack' = Below \o <<cont, Frame(FALSE, v, newKey, path)>>
         /\ UNCHANGED <<flatmap, visited>>
    ELSE /\ flatmap' = Store(flatmap, newKey, v)
         /\ visited' = Append(visited, path)
         /\ stack' = Below \o <<cont>>

Key(k) == [seg |-> "key", k |-> k]
Idx(i) == [seg |-> "idx", i |-> i]

\* Flatten calling flatten with top false
FlattenNotTop ==
    /\ pc = "Flatten"
    /\ flatmap' = <<>>
    /\ stack' = <<[top |-> FALSE, nested |-> nested, prefix |-> prefix,
                   case |-> flattenCase(nested),
                   keys |-> IF flattenCase(nested) = "map" THEN DOMAIN nested.m ELSE {},
                   i |-> 0, path |-> <<>>]>>
    /\ pc' = "flatten"
    /\ UNCHANGED <<call, nestedstr, nested, prefix, keyMerger, result,
                   resultstr, decoded, visited>>

\* Flatten up to its call of flatten
Flatten ==
    /\ pc = "Flatten"
    /\ flatmap' = <<>>
    /\ stack' = <<Frame(TRUE, nested, prefix, <<>>)>>
    /\ pc' = "flatten"
    /\ UNCHANGED <<call, nestedstr, nested, prefix, keyMerger, result,
                   resultstr, decoded, visited>>

\* a range over a map that joins each key to the key of the entry before
flattenMapReusesPrefix ==
    /\ pc = "flatten"
    /\ Cur.case = "map"
    /\ \E k \in Cur.keys :
          LET newKey == MergeKeys(keyMerger, Cur.top, Cur.prefix, k)
              cont == [Cur EXCEPT !.keys = @ \ {k}, !.prefix = newKey]
          IN assign(cont, newKey, Cur.nested.m[k], Append(Cur.path, Key(k)))
    /\ UNCHANGED <<call, nestedstr, nested, prefix, keyMerger, pc, result,
                   resultstr, decoded>>

\* one iteration of the range over a map; Go fixes no order
flattenMap ==
    /\ pc = "flatten"
    /\ Cur.case = "map"
    /\ \E k \in Cur.keys :
          LET newKey == MergeKeys(keyMerger, Cur.top, Cur.prefix, k)
              cont == [Cur EXCEPT !.keys = @ \ {k}]
          IN assign(cont, newKey, Cur.nested.m[k], Append(Cur.path, Key(k)))
    /\ UNCHANGED <<call, nestedstr, nested, prefix, keyMerger, pc, result,
                   resultstr, decoded>>

\* one iteration of the range over a slice
flattenSlice ==
    /\ pc = "flatten"
    /\ Cur.case = "seq"
    /\ Cur.i < Len(Cur.nested.elems)
    /\ LET newKey == MergeKeys(keyMerger, Cur.top, Cur.prefix, Itoa(Cur.i))
           cont == [Cur EXCEPT !.i = @ + 1]
       IN assign(cont, newKey, Cur.nested.elems[Cur.i + 1], Append(Cur.path, Idx(Cur.i)))
    /\ UNCHANGED <<call, nestedstr, nested, prefix, keyMerger, pc, result,
                   resultstr, decoded>>

\* the error a finished call of flatten returns
flattenErr(f) == IF f.case = "default" THEN NotValidInputError ELSE nil

\* a range over a slice that stops one element early
flattenDoneEarly(f) ==
    \/ f.case = "default"
    \/ f.case = "map" /\ f.keys = {}
    \/ f.case = "seq" /\ f.i >= Len(f.nested.elems) - 1

flattenDone(f) ==
    \/ f.case = "default"
    \/ f.case = "map" /\ f.keys = {}
    \/ f.case = "seq" /\ f.i >= Len(f.nested.elems)

\* a call of flatten returns: to the range loop that called assign, which
\* drops the error, to Flatten, which returns it with a nil map, or to
\* whoever called flatten itself, who gets the error alone
flattenReturn ==
    /\ pc = "flatten"
    /\ flattenDone(Cur)
    /\ stack' = Below
    /\ IF Len(stack) = 1
       THEN /\ result' = IF call = "flatten" \/ flattenErr(Cur) # nil
                         THEN [map |-> [nil |-> TRUE, m |-> <<>>], err |-> flattenErr(Cur)]
                         ELSE [map |-> [nil |-> FALSE, m |-> flatmap], err |-> nil]
            /\ pc' = CASE call = "FlattenString" -> "Marshal"
                       [] call = "Flatten" -> "FlattenReturned"
                       [] call = "flatten" -> "flattenReturned"
       ELSE UNCHANGED <<result, pc>>
    /\ UNCHANGED <<call, nestedstr, nested, prefix, keyMerger, flatmap,
                   resultstr, decoded, visited>>

-----------------------------------------------------------------------------
(* FlattenString: the pattern isJsonMap *)

\* the class \s of the regexp package
RegexpSpace == {"\t", "\n", "\f", "\r", " "}

\* the pattern without its anchor: \s*\{
isJsonMapUnanchored(s) == \E j \in 1..Len(s) : s[j] = "{"

\* no pattern check at all
isJsonMapAny(s) == TRUE

\* isJsonMap.MatchString(s) for the pattern ^\s*\{
RECURSIVE isJsonMap(_)
isJsonMap(s) ==
    /\ s # <<>>
    /\ \/ Head(s) = "{"
       \/ Head(s) \in RegexpSpace /\ isJsonMap(Tail(s))

-----------------------------------------------------------------------------
(* encoding/json, for the texts of the alphabet below: no escapes in    *)
(* strings, numbers are unsigned integers                                *)

JsonSpace == {" ", "\t", "\n", "\r"}
DigitChars == {Digits[j] : j \in 1..Len(Digits)}
ControlChars == {"\t", "\n", "\f", "\r"}

RECURSIVE SkipSpace(_)
SkipSpace(s) ==
    IF s # <<>> /\ Head(s) \in JsonSpace THEN SkipSpace(Tail(s)) ELSE s

\* strings.HasPrefix
StartsWith(s, p) == Len(p) <= Len(s) /\ SubSeq(s, 1, Len(p)) = p

Fail == [ok |-> FALSE]
Ok(v, rest) == [ok |-> TRUE, val |-> v, rest |-> rest]

\* the characters of a string literal whose opening quote was read
RECURSIVE ScanString(_, _)
ScanString(s, acc) ==
    IF s = <<>> THEN Fail
    ELSE IF Head(s) = "\"" THEN Ok(acc, Tail(s))
    ELSE IF Head(s) = "\\" \/ Head(s) \in ControlChars THEN Fail
    ELSE ScanString(Tail(s), Append(acc, Head(s)))

DigitValue(c) == (CHOOSE j \in 1..Len(Digits) : Digits[j] = c) - 1

RECURSIVE ScanDigits(_, _)
ScanDigits(s, n) ==
    IF s # <<>> /\ Head(s) \in DigitChars
    THEN ScanDigits(Tail(s), 10 * n + DigitValue(Head(s)))
    ELSE Ok(Num(n), s)

\* 0 or a digit sequence that does not start with 0
ScanNumber(s) ==
    IF Head(s) = "0" THEN Ok(Num(0), Tail(s)) ELSE ScanDigits(s, 0)

LitTrue == <<"t", "r", "u", "e">>
LitFalse == <<"f", "a", "l", "s", "e">>
LitNull == <<"n", "u", "l", "l">>

RECURSIVE ParseValue(_), ParseMembers(_, _), ParseElements(_, _)

\* one JSON value at the start of s, after white space
ParseValue(s0) ==
    LET s == SkipSpace(s0) IN
    IF s = <<>> THEN Fail
    ELSE IF Head(s) = "{" THEN
        (LET t == SkipSpace(Tail(s)) IN
         IF t # <<>> /\ Head(t) = "}" THEN Ok(EmptyMap, Tail(t))
         ELSE ParseMembers(t, <<>>))
    ELSE IF Head(s) = "[" THEN
        (LET t == SkipSpace(Tail(s)) IN
         IF t # <<>> /\ Head(t) = "]" THEN Ok(Seq0(<<>>), Tail(t))
         ELSE ParseElements(t, <<>>))
    ELSE IF Head(s) = "\"" THEN
        (LET r == ScanString(Tail(s), <<>>) IN
         IF r.ok THEN Ok(Str(r.val), r.rest) ELSE Fail)
    ELSE IF Head(s) \in DigitChars THEN ScanNumber(s)
    ELSE IF StartsWith(s, LitTrue) THEN Ok(Bool(TRUE), SubSeq(s, 5, Len(s)))
    ELSE IF StartsWith(s, LitFalse) THEN Ok(Bool(FALSE), SubSeq(s, 6, Len(s)))
    ELSE IF StartsWith(s, LitNull) THEN Ok(Null, SubSeq(s, 5, Len(s)))
    ELSE Fail

\* "key" : value { , "key" : value } and the closing brace; a repeated key
\* keeps its last value
ParseMembers(s, acc) ==
    IF s = <<>> \/ Head(s) # "\"" THEN Fail
    ELSE LET k == ScanString(Tail(s), <<>>) IN
         IF ~k.ok THEN Fail
         ELSE LET c == SkipSpace(k.rest) IN
              IF c = <<>> \/ Head(c) # ":" THEN Fail
              ELSE LET e == ParseValue(Tail(c)) IN
                   IF ~e.ok THEN Fail
                   ELSE LET t == SkipSpace(e.rest)
                            m == Store(acc, k.val, e.val)
                        IN IF t = <<>> THEN Fail
                           ELSE IF Head(t) = "}" THEN Ok(Map(m), Tail(t))
                           ELSE IF Head(t) = "," THEN ParseMembers(SkipSpace(Tail(t)), m)
                           ELSE Fail

\* value { , value } and the closing bracket
ParseElements(s, acc) ==
    LET e == ParseValue(s) IN
    IF ~e.ok THEN Fail
    ELSE LET t == SkipSpace(e.rest) IN
         IF t = <<>> THEN Fail
         ELSE IF Head(t) = "]" THEN Ok(Seq0(Append(acc, e.val)), Tail(t))
         ELSE IF Head(t) = "," THEN ParseElements(Tail(t), Append(acc, e.val))
         ELSE Fail

SyntaxError == "json: SyntaxError"
UnmarshalTypeError == "json: UnmarshalTypeError"

\* json.Unmarshal([]byte(text), &nested) for nested a nil map: the text is
\* validated as a whole first; null leaves nested as it is; an object makes
\* the map; any other value is a type error
Unmarshal(text) ==
    LET r == ParseValue(text) IN
    IF ~r.ok \/ SkipSpace(r.rest) # <<>>
    THEN [err |-> SyntaxError, nested |-> NilMap]
    ELSE IF r.val.kind = "null" THEN [err |-> nil, nested |-> NilMap]
    ELSE IF r.val.kind = "map" THEN [err |-> nil, nested |-> r.val]
    ELSE [err |-> UnmarshalTypeError, nested |-> NilMap]

\* the characters of the texts and keys, in the order of their codes
CharOrder ==
    <<"\t", "\n", "\f", "\r", " ", "\"", "(", ")", ",", "-", ".", "/",
      "0", "1", "2", "3", "4", "5", "6", "7", "8", "9", ":",
      "[", "\\", "]", "_",
      "a", "b", "c", "d", "e", "f", "g", "h", "i", "j", "k", "l", "m",
      "n", "o", "p", "q", "r", "s", "t", "u", "v", "w", "x", "y", "z",
      "{", "}">>

Code(c) == CHOOSE j \in 1..Len(CharOrder) : CharOrder[j] = c

\* s < t as Go compares strings
RECURSIVE StringLess(_, _)
StringLess(s, t) ==
    IF t = <<>> THEN FALSE
    ELSE IF s = <<>> THEN TRUE
    ELSE IF Head(s) = Head(t) THEN StringLess(Tail(s), Tail(t))
    ELSE Code(Head(s)) < Code(Head(t))

\* the keys in increasing order
RECURSIVE SortedKeys(_)
SortedKeys(ks) ==
    IF ks = {} THEN <<>>
    ELSE LET least == CHOOSE k \in ks : \A o \in ks \ {k} : StringLess(k, o)
         IN <<least>> \o SortedKeys(ks \ {least})

RECURSIVE Quoted(_)
Quoted(s) ==
    IF s = <<>> THEN <<>>
    ELSE (IF Head(s) \in {"\"", "\\"} THEN <<"\\", Head(s)>> ELSE <<Head(s)>>)
         \o Quoted(Tail(s))

EncodeString(s) == <<"\"">> \o Quoted(s) \o <<"\"">>

\* the JSON literal of a scalar
EncodeScalar(v) ==
    CASE v.kind = "string" -> EncodeString(v.str)
      [] v.kind = "number" -> Itoa(v.num)
      [] v.kind = "bool" -> IF v.bool THEN LitTrue ELSE LitFalse
      [] v.kind = "null" -> LitNull

RECURSIVE EncodeEntries(_, _)
EncodeEntries(m, ks) ==
    IF ks = <<>> THEN <<>>
    ELSE EncodeString(Head(ks)) \o <<":">> \o EncodeScalar(m[Head(ks)])
         \o (IF Len(ks) > 1 THEN <<",">> ELSE <<>>)
         \o EncodeEntries(m, Tail(ks))

\* json.Marshal(&flatmap) for a map of scalars: keys sorted, no white space
Marshal(fm) ==
    IF fm.nil THEN LitNull
    ELSE <<"{">> \o EncodeEntries(fm.m, SortedKeys(DOMAIN fm.m)) \o <<"}">>

-----------------------------------------------------------------------------
(* FlattenString *)

\* FlattenString up to the pattern check
FlattenString ==
    /\ pc = "FlattenString"
    /\ IF ~isJsonMap(nestedstr)
       THEN /\ resultstr' = [str |-> <<>>, err |-> NotValidJsonInputError]
            /\ pc' = "FlattenStringReturned"
       ELSE /\ pc' = "Unmarshal"
            /\ UNCHANGED resultstr
    /\ UNCHANGED <<call, nestedstr, nested, prefix, keyMerger, flatmap, stack,
                   result, decoded, visited>>

\* FlattenString going on after json.Unmarshal failed
FlattenStringUnmarshalNoCheck ==
    /\ pc = "Unmarshal"
    /\ decoded' = TRUE
    /\ nested' = Unmarshal(nestedstr).nested
    /\ pc' = "Flatten"
    /\ UNCHANGED <<call, nestedstr, prefix, keyMerger, flatmap, stack, result,
                   resultstr, visited>>

\* FlattenString from json.Unmarshal up to its call of Flatten
FlattenStringUnmarshal ==
    /\ pc = "Unmarshal"
    /\ decoded' = TRUE
    /\ LET u == Unmarshal(nestedstr) IN
       IF u.err # nil
       THEN /\ resultstr' = [str |-> <<>>, err |-> u.err]
            /\ pc' = "FlattenStringReturned"
            /\ UNCHANGED nested
       ELSE /\ nested' = u.nested
            /\ pc' = "Flatten"
            /\ UNCHANGED resultstr
    /\ UNCHANGED <<call, nestedstr, prefix, keyMerger, flatmap, stack, result,
                   visited>>

\* FlattenString after Flatten returned
FlattenStringMarshal ==
    /\ pc = "Marshal"
    /\ resultstr' = IF result.err # nil
                    THEN [str |-> <<>>, err |-> result.err]
                    ELSE [str |-> Marshal(result.map), err |-> nil]
    /\ pc' = "FlattenStringReturned"
    /\ UNCHANGED <<call, nestedstr, nested, prefix, keyMerger, flatmap, stack,
                   result, decoded, visited>>

-----------------------------------------------------------------------------
(* Texts *)

\* test 1
TextFlat ==
    <<"{", " ", "\"", "a", "\"", ":", " ", "\"", "b", "\"", " ", "}">>

\* test 2, shortened
TextDeep ==
    <<"{", "\"", "a", "\"", ":", "{", "\"", "b", "\"", ":", "{", "\"", "c",
      "\"", ":", "{", "\"", "d", "\"", ":", "\"", "e", "\"", "}", "}", "}",
      ",", "\"", "n", "\"", ":", "1", ",", "\"", "t", "\"", ":", "t", "r",
      "u", "e", "}">>

\* test 6, shortened: leading whitespace
TextLeadingSpace ==
    <<"\n", " ", "\t", "{", " ", "\"", "a", "\"", ":", " ", "{", " ", "\"",
      "b", "\"", ":", " ", "\"", "c", "\"", " ", "}", " ", "}">>

\* test 7
TextArray ==
    <<"[", " ", "\"", "a", "\"", ":", " ", "{", " ", "\"", "b", "\"", ":",
      " ", "\"", "c", "\"", " ", "}", ",", " ", "\"", "d", "\"", " ", "]">>

\* test 9
TextWord ==
    <<"a", "s", "t", "r", "i", "n", "g">>

\* test 10
TextFalse ==
    <<"f", "a", "l", "s", "e">>

\* test 11
TextNumber ==
    <<"4", "2">>

\* test 12
TextNull ==
    <<"n", "u", "l", "l">>

\* an object with a list
TextList ==
    <<"{", "\"", "l", "\"", ":", "[", "\"", "x", "\"", ",", "{", "\"", "d",
      "\"", ":", "n", "u", "l", "l", "}", "]", "}", " ">>

\* an object with a repeated key
TextDuplicate ==
    <<"{", "\"", "a", "\"", ":", "1", ",", "\"", "a", "\"", ":", "\"", "x",
      "\"", "}">>

\* malformed
TextNoValue ==
    <<"{", " ", "\"", "a", "\"", ":", " ", "}">>

\* malformed
TextUnclosed ==
    <<"{", "\"", "a", "\"", ":", "\"", "b", "\"">>

\* malformed
TextTrailing ==
    <<"{", "\"", "a", "\"", ":", "\"", "b", "\"", "}", " ", "x">>

\* malformed
TextNoColon ==
    <<"{", "\"", "a", "\"", " ", "\"", "b", "\"", "}">>

\* a form feed: \s matches it, JSON does not skip it
TextFormFeed ==
    <<"\f", "{", "}">>

\* an array after a space
TextSpaceArray ==
    <<" ", "[", "1", "]">>

\* two paths that Dot composes to a.b
TextCollision ==
    <<"{", "\"", "a", "\"", ":", "{", "\"", "b", "\"", ":", "\"", "x",
      "\"", "}", ",", "\"", "a", ".", "b", "\"", ":", "2", "}">>

SampleTexts ==
    {TextFlat, TextDeep, TextLeadingSpace, TextArray,
     TextWord, TextFalse, TextNumber, TextNull,
     TextList, TextDuplicate, TextNoValue, TextUnclosed,
     TextTrailing, TextNoColon, TextFormFeed, TextSpaceArray,
     TextCollision}

TextAlphabet == {" ", "\n", "{", "}", "[", "1", "n"}

RECURSIVE TextsOfLen(_)
TextsOfLen(n) ==
    IF n = 0 THEN {<<>>}
    ELSE {Append(t, c) : t \in TextsOfLen(n - 1), c \in TextAlphabet}

GeneratedTexts == UNION {TextsOfLen(n) : n \in 0..MaxTextLen}

Texts == GeneratedTexts \cup SampleTexts

-----------------------------------------------------------------------------
(* Inputs *)

KeyNames == {<<"a">>, <<"b">>, <<"a", ".", "b">>}
Scalars == {Str(<<"x">>), Num(1)}

RECURSIVE TreesOfSize(_), EntriesOfSize(_, _), SeqsOfSize(_)

\* the values with exactly n nodes
TreesOfSize(n) ==
    IF n = 1 THEN Scalars \cup {EmptyMap, Seq0(<<>>)}
    ELSE {Map(f) : f \in EntriesOfSize(n - 1, KeyNames)}
         \cup {Seq0(s) : s \in SeqsOfSize(n - 1)}

\* the functions from a subset of ks to values of n nodes in total
EntriesOfSize(n, ks) ==
    IF ks = {} THEN (IF n = 0 THEN {<<>>} ELSE {})
    ELSE LET k == CHOOSE x \in ks : TRUE
             rest == ks \ {k}
         IN EntriesOfSize(n, rest)
            \cup UNION {{(k :> t) @@ f : t \in TreesOfSize(j),
                                         f \in EntriesOfSize(n - j, rest)} : j \in 1..n}

\* the sequences of values of n nodes in total
SeqsOfSize(n) ==
    IF n = 0 THEN {<<>>}
    ELSE UNION {{<<t>> \o s : t \in TreesOfSize(j), s \in SeqsOfSize(n - j)} : j \in 1..n}

GeneratedInputs ==
    UNION {{Map(f) : f \in EntriesOfSize(n, KeyNames)} : n \in 0..(MaxNodes - 1)}

Prefixes == {<<>>, <<"p", ":">>}

Mergers == {DotStyle, PathStyle, RailsStyle, UnderscoreStyle,
            SeparatorStyle(<<"(">>, <<"-">>, <<")">>),
            FuncMerger("escapeDots")}

\* { "a": { "b": "c" }, "e": "f" }
SampleNested ==
    Map((<<"a">> :> Map(<<"b">> :> Str(<<"c">>))) @@ (<<"e">> :> Str(<<"f">>)))

\* { "a": { "b": { "c": { "d": "e" } } }, "number": 1, "bool": true }
SampleDeep ==
    Map((<<"a">> :> Map(<<"b">> :> Map(<<"c">> :> Map(<<"d">> :> Str(<<"e">>)))))
        @@ (<<"n", "u", "m", "b", "e", "r">> :> Num(1))
        @@ (<<"b", "o", "o", "l">> :> Bool(TRUE)))

\* { "fee": "bar", "n1": { "alist": [ "a", "b", { "d": "other", "e": null } ] } }
SampleList ==
    Map((<<"f", "e", "e">> :> Str(<<"b", "a", "r">>))
        @@ (<<"n", "1">> :>
              Map(<<"a", "l", "i", "s", "t">> :>
                    Seq0(<<Str(<<"a">>), Str(<<"b">>),
                           Map((<<"d">> :> Str(<<"o", "t", "h", "e", "r">>))
                               @@ (<<"e">> :> Null))>>))))

\* { "a": "b", "f_g": "h", "m_n": { "o_p": "q", "r..s": "t_u" } }
SampleUnderscores ==
    Map((<<"a">> :> Str(<<"b">>))
        @@ (<<"f", "_", "g">> :> Str(<<"h">>))
        @@ (<<"m", "_", "n">> :>
              Map((<<"o", "_", "p">> :> Str(<<"q">>))
                  @@ (<<"r", ".", ".", "s">> :> Str(<<"t", "_", "u">>)))))

\* { "a": [ "x", 1 ], "a.1": "y", "a/1": true, "a[1]": null, "a_1": 2 }
SampleCollision ==
    Map((<<"a">> :> Seq0(<<Str(<<"x">>), Num(1)>>))
        @@ (<<"a", ".", "1">> :> Str(<<"y">>))
        @@ (<<"a", "/", "1">> :> Bool(TRUE))
        @@ (<<"a", "[", "1", "]">> :> Null)
        @@ (<<"a", "_", "1">> :> Num(2)))

SampleInputs ==
    {SampleNested, SampleDeep, SampleList, SampleUnderscores, SampleCollision}

Inputs == GeneratedInputs \cup SampleInputs \cup {NilMap}

-----------------------------------------------------------------------------
(* What the properties speak about *)

\* Flatten has returned (to its caller, or to FlattenString)
FlattenDone == pc \in {"FlattenReturned", "Marshal"}

\* the map Flatten returned
Flat == result.map.m

ScalarKinds == {"string", "number", "bool", "null"}

\* the scalar leaves of v with the path that reaches each, below path
RECURSIVE LeavesOf(_, _)
LeavesOf(v, path) ==
    IF v.kind = "map"
    THEN UNION {LeavesOf(v.m[k], Append(path, Key(k))) : k \in DOMAIN v.m}
    ELSE IF v.kind = "seq"
    THEN UNION {LeavesOf(v.elems[j], Append(path, Idx(j - 1))) : j \in 1..Len(v.elems)}
    ELSE {[path |-> path, val |-> v]}

Leaves == LeavesOf(nested, <<>>)

DigitChar(d) ==
    CASE d = 0 -> "0" [] d = 1 -> "1" [] d = 2 -> "2" [] d = 3 -> "3"
      [] d = 4 -> "4" [] d = 5 -> "5" [] d = 6 -> "6" [] d = 7 -> "7"
      [] d = 8 -> "8" [] d = 9 -> "9"

RECURSIVE DecimalDigits(_)
DecimalDigits(n) ==
    IF n = 0 THEN <<>> ELSE DecimalDigits(n \div 10) \o <<DigitChar(n % 10)>>

\* the decimal string of a 0-based position
DecimalString(n) == IF n = 0 THEN <<"0">> ELSE DecimalDigits(n)

\* the path segment of one step: a map key or the decimal string of a position
Segment(step) == IF step.seg = "key" THEN step.k ELSE DecimalString(step.i)

\* M(false, ... M(false, M(true, p, s1), s2) ..., sn)
RECURSIVE Compose(_, _, _, _)
Compose(m, root, acc, path) ==
    IF path = <<>> THEN acc
    ELSE Compose(m, FALSE, MergeKeys(m, root, acc, Segment(Head(path))), Tail(path))

ComposedKey(path) == Compose(keyMerger, TRUE, prefix, path)

\* the leaves whose path composes to key
Colliding(key) == {l \in Leaves : ComposedKey(l.path) = key}

NoCollision ==
    \A l1, l2 \in Leaves : ComposedKey(l1.path) = ComposedKey(l2.path) => l1 = l2


-----------------------------------------------------------------------------
(* C1 *)

\* C1 as stated: for every scalar leaf reached by the path s1..sn the map
\* returned by Flatten holds the leaf's value under the key
\* M(false, ... M(false, M(true, p, s1), s2) ..., sn).
C1_AsStated ==
    FlattenDone =>
        \A l \in Leaves :
            /\ ComposedKey(l.path) \in DOMAIN Flat
            /\ Flat[ComposedKey(l.path)] = l.val

\* C1 (amended): for every scalar leaf reached by the path s1..sn the map
\* returned by Flatten has the key M(false, ... M(true, p, s1) ..., sn), root
\* flag true for the first segment only; the key holds the leaf's value
\* unchanged when no other leaf path composes to the same key, and the value
\* of one of the leaves composing to it otherwise.
C1_LeafUnderComposedKey ==
    FlattenDone =>
        \A l \in Leaves :
            LET K == ComposedKey(l.path) IN
            /\ K \in DOMAIN Flat
            /\ Colliding(K) = {l} => Flat[K] = l.val
            /\ \E c \in Colliding(K) : Flat[K] = c.val

\* a leaf three levels down, below a sequence, has been flattened
C1_Witness ==
    /\ FlattenDone
    /\ NoCollision
    /\ \E l \in Leaves : Len(l.path) = 3 /\ l.path[3].seg = "idx" /\ l.path[3].i = 1

-----------------------------------------------------------------------------
(* C4 *)

\* C4: every value of the map returned by Flatten is a scalar, and so is
\* every value of the accumulator after each assignment of the traversal.
C4_OnlyScalars ==
    /\ \A k \in DOMAIN flatmap : flatmap[k].kind \in ScalarKinds
    /\ \A k \in DOMAIN Flat : Flat[k].kind \in ScalarKinds

\* a leaf below a map inside a sequence inside two maps has been flattened
C4_Witness ==
    /\ FlattenDone
    /\ \E l \in Leaves :
          /\ Len(l.path) = 4
          /\ l.path[3].seg = "idx"
          /\ ComposedKey(l.path) \in DOMAIN Flat

-----------------------------------------------------------------------------
(* C5 *)

\* C5: when no two distinct leaf paths compose to the same flat key, the
\* map returned by Flatten has as many entries as the input has scalar
\* leaves, and each leaf was assigned exactly once.
C5_Cardinality ==
    (FlattenDone /\ NoCollision) =>
        /\ Cardinality(DOMAIN Flat) = Cardinality(Leaves)
        /\ Len(visited) = Cardinality(Leaves)
        /\ {visited[j] : j \in 1..Len(visited)} = {l.path : l \in Leaves}

C5_Witness ==
    FlattenDone /\ NoCollision /\ Cardinality(Leaves) = 3 /\ Cardinality(DOMAIN Flat) = 3

-----------------------------------------------------------------------------
(* C2 *)

\* Before + Middle + s + After for every segment s of path, in order
RECURSIVE Styled(_, _)
Styled(style, path) ==
    IF path = <<>> THEN <<>>
    ELSE style.Before \o style.Middle \o Segment(Head(path)) \o style.After
         \o Styled(style, Tail(path))

\* the first segment bare after the prefix, every later one styled
StyleKey(style, p, path) == p \o Segment(Head(path)) \o Styled(style, Tail(path))

RECURSIVE SumLen(_)
SumLen(path) ==
    IF path = <<>> THEN 0 ELSE Len(Segment(Head(path))) + SumLen(Tail(path))

Last(s) == s[Len(s)]

\* the key the presets give the leaf b of the map a, without prefix
PresetExample ==
    <<[style |-> DotStyle, key |-> <<"a", ".", "b">>],
      [style |-> PathStyle, key |-> <<"a", "/", "b">>],
      [style |-> RailsStyle, key |-> <<"a", "[", "b", "]">>],
      [style |-> UnderscoreStyle, key |-> <<"a", "_", "b">>]>>

-----------------------------------------------------------------------------
(* C3 *)

\* C3: with a SeparatorStyle and any prefix p every output key starts with
\* p immediately followed by a top-level map key; the key of a top-level
\* scalar is exactly p + key, and below a top-level container what follows
\* p + key is Before + Middle + the second segment.
C3_PrefixThenFirstSegment ==
    keyMerger.type = "SeparatorStyle" =>
        /\ Len(stack) >= 2 =>
              stack[2].prefix = prefix \o Segment(Last(stack[2].path))
        /\ FlattenDone =>
              /\ \A K \in DOMAIN Flat :
                    \E k \in DOMAIN nested.m : StartsWith(K, prefix \o k)
              /\ \A l \in Leaves :
                    IF Len(l.path) = 1
                    THEN prefix \o Segment(l.path[1]) \in DOMAIN Flat
                    ELSE \E K \in DOMAIN Flat :
                            StartsWith(K, prefix \o Segment(l.path[1])
                                          \o keyMerger.Before \o keyMerger.Middle
                                          \o Segment(l.path[2]))

\* prefix "p:" on {"a":{"b":"c"},"e":"f"} with Dot gave "p:a.b" and "p:e"
C3_Witness ==
    /\ FlattenDone
    /\ nested = SampleNested
    /\ prefix = <<"p", ":">>
    /\ keyMerger = DotStyle
    /\ DOMAIN Flat = {<<"p", ":", "a", ".", "b">>, <<"p", ":", "e">>}

-----------------------------------------------------------------------------
(* C6 *)

OnlyScalars(v) == \A k \in DOMAIN v.m : v.m[k].kind \in ScalarKinds

\* C6 as stated: with an empty prefix and any key policy, a map whose
\* values are all scalars flattens to a map equal to itself.
C6_AsStated ==
    (FlattenDone /\ prefix = <<>> /\ OnlyScalars(nested)) => Flat = nested.m

\* C6 (amended): with an empty prefix and any SeparatorStyle (or any other
\* policy that returns parentKey + childKey for the keys of the input on
\* the root call), a map whose values are all scalars flattens to a map
\* with exactly the entries of the input.
C6_FlatInputUnchanged ==
    (/\ FlattenDone
     /\ prefix = <<>>
     /\ OnlyScalars(nested)
     /\ \/ keyMerger.type = "SeparatorStyle"
        \/ \A k \in DOMAIN nested.m : MergeKeys(keyMerger, TRUE, <<>>, k) = k)
    => Flat = nested.m

\* a map of two scalars has been flattened with a SeparatorStyle
C6_Witness ==
    /\ FlattenDone
    /\ prefix = <<>>
    /\ keyMerger = RailsStyle
    /\ OnlyScalars(nested)
    /\ Cardinality(DOMAIN nested.m) = 2
    /\ Flat = nested.m

-----------------------------------------------------------------------------
(* C7 *)

FlattenStringDone == call = "FlattenString" /\ pc = "FlattenStringReturned"

\* white space: tab, line feed, form feed, carriage return, space
WhiteSpace == {" ", "\t", "\n", "\r", "\f"}

\* the first character that is not white space, "" when there is none
FirstNonSpace(s) ==
    LET P == {j \in 1..Len(s) : s[j] \notin WhiteSpace} IN
    IF P = {} THEN "" ELSE s[CHOOSE j \in P : \A o \in P : j <= o]

\* C7: for every text whose first non-whitespace character is not '{'
\* (a top-level array, the empty text, a bare word, false, 42, null)
\* FlattenString returns the empty string and NotValidJsonInputError and
\* the deserializer is never called; when the first non-whitespace
\* character is '{' the text passes on to the deserializer.
C7_ShapeCheck ==
    call = "FlattenString" =>
        /\ FirstNonSpace(nestedstr) # "{" =>
              /\ ~decoded
              /\ pc \notin {"Unmarshal", "Flatten", "flatten", "Marshal"}
              /\ FlattenStringDone =>
                    resultstr = [str |-> <<>>, err |-> NotValidJsonInputError]
        /\ (FirstNonSpace(nestedstr) = "{" /\ FlattenStringDone) =>
              /\ decoded
              /\ resultstr.err # NotValidJsonInputError

\* the array of test 7, which holds a '{' further in, was turned down
C7_Witness ==
    /\ FlattenStringDone
    /\ nestedstr = TextArray
    /\ resultstr.err = NotValidJsonInputError

\* a text with white space before its '{' went through
C7_WitnessAccepted ==
    /\ FlattenStringDone
    /\ nestedstr = TextLeadingSpace
    /\ resultstr.err = nil

-----------------------------------------------------------------------------
(* C8 *)

\* C8 as stated: FlattenString of the text null returns {} and no error.
C8_AsStated ==
    (FlattenStringDone /\ nestedstr = TextNull) =>
        resultstr = [str |-> <<"{", "}">>, err |-> nil]

\* C8 (amended): FlattenString of the text null fails: it returns the
\* empty string and NotValidJsonInputError, and the text never reaches the
\* deserializer.
C8_NullRejected ==
    (FlattenStringDone /\ nestedstr = TextNull) =>
        /\ resultstr = [str |-> <<>>, err |-> NotValidJsonInputError]
        /\ ~decoded

\* FlattenString has returned for the text null
C8_Witness ==
    /\ FlattenStringDone
    /\ nestedstr = TextNull
    /\ resultstr.str = <<>>

-----------------------------------------------------------------------------
(* C9 *)

\* what the text is at its top level
TopLevel(text) ==
    LET r == ParseValue(text) IN
    IF ~r.ok \/ SkipSpace(r.rest) # <<>> THEN "malformed"
    ELSE IF r.val.kind = "map" THEN "object"
    ELSE IF r.val.kind = "seq" THEN "array"
    ELSE "scalar"

\* C9: for a text that starts with '{' after white space and that the
\* deserializer rejects, FlattenString returns the empty string and the
\* deserializer's error, never NotValidJsonInputError; and no text whose
\* top-level value is an array, a bare scalar or malformed gives a
\* successful result.
C9_DecodeErrorVerbatim ==
    FlattenStringDone =>
        /\ (FirstNonSpace(nestedstr) = "{" /\ Unmarshal(nestedstr).err # nil) =>
              /\ resultstr.str = <<>>
              /\ resultstr.err = Unmarshal(nestedstr).err
              /\ resultstr.err \in {SyntaxError, UnmarshalTypeError}
        /\ TopLevel(nestedstr) \in {"array", "scalar", "malformed"} =>
              /\ resultstr.err # nil
              /\ resultstr.str = <<>>

\* an object that is never closed was turned down by the deserializer
C9_Witness ==
    /\ FlattenStringDone
    /\ nestedstr = TextUnclosed
    /\ decoded
    /\ resultstr.err = SyntaxError

-----------------------------------------------------------------------------
(* C10 *)

\* the position of path in the order of assignment
VisitedAt(path) == CHOOSE j \in 1..Len(visited) : visited[j] = path

\* the leaf among ls that was assigned last
LastVisited(ls) ==
    CHOOSE l \in ls : \A o \in ls : VisitedAt(o.path) <= VisitedAt(l.path)

\* C10: when two distinct leaf paths compose to the same flat key, Flatten
\* reports no error and the returned map has one entry for that key, whose
\* value is the leaf of the colliding path that the traversal assigned last.
C10_LastWriterWins ==
    (FlattenDone /\ ~NoCollision) =>
        /\ result.err = nil
        /\ ~result.map.nil
        /\ DOMAIN Flat = {ComposedKey(l.path) : l \in Leaves}
        /\ \A K \in DOMAIN Flat : Flat[K] = LastVisited(Colliding(K)).val

\* two leaves with different values collided and the one under the
\* top-level key a.1 was assigned before the element 1 of the sequence a
C10_Witness ==
    /\ FlattenDone
    /\ nested = SampleCollision
    /\ keyMerger = DotStyle
    /\ Flat[prefix \o <<"a", ".", "1">>] = Num(1)

\* the same collision, taken in the other order
C10_WitnessOther ==
    /\ FlattenDone
    /\ nested = SampleCollision
    /\ keyMerger = DotStyle
    /\ Flat[prefix \o <<"a", ".", "1">>] = Str(<<"y">>)

-----------------------------------------------------------------------------
(* C11 *)

\* C11: for nested keys f (at the root) and g a SeparatorStyle gives the
\* key f{Middle}{Before}g{After}, Middle before Before, as the comment of
\* the type SeparatorStyle says.
C11_MiddleThenBefore ==
    (FlattenDone /\ keyMerger.type = "SeparatorStyle") =>
        \A l \in Leaves :
            Len(l.path) = 2 =>
                prefix \o Segment(l.path[1]) \o keyMerger.Middle
                    \o keyMerger.Before \o Segment(l.path[2]) \o keyMerger.After
                  \in DOMAIN Flat

\* what the code gives the style with Before "(", Middle "-", After ")"
\* for the leaf b of the map a: a(-b), where the comment says a-(b)
C11_CodeOrder ==
    /\ FlattenDone
    /\ keyMerger = SeparatorStyle(<<"(">>, <<"-">>, <<")">>)
    /\ prefix = <<>>
    /\ nested = Map(<<"a">> :> Map(<<"b">> :> Str(<<"x">>)))
    /\ DOMAIN Flat = {<<"a", "(", "-", "b", ")">>}

-----------------------------------------------------------------------------
(* C13 *)

flattenReturned == call = "flatten" /\ pc = "flattenReturned"

C13_State ==
    /\ call \in {"Flatten", "FlattenString"} =>
          /\ \A j \in 1..Len(stack) : stack[j].case # "default"
          /\ result.err = nil
          /\ resultstr.err # NotValidInputError
    /\ FlattenDone => ~result.map.nil
    /\ \A j \in 2..Len(stack) : stack[j].case # "default"
    /\ flattenReturned =>
          (result.err = NotValidInputError <=> nested.kind \in ScalarKinds)

C13_Step == (stack # <<>> /\ Cur.case = "default") => flatmap' = flatmap

\* C13: for every map (the empty and the nil map too), prefix and policy
\* Flatten returns a map that is not nil and a nil error;
\* NotValidInputError is returned only when flatten itself is handed a
\* scalar, no call of flatten made from Flatten or FlattenString is handed
\* one, and that call of flatten leaves the accumulator as it was.
C13_ErrorOnlyForScalar == []C13_State /\ [][C13_Step]_vars

\* Flatten of the nil map returned an empty map that is not nil
C13_Witness ==
    /\ call = "Flatten"
    /\ FlattenDone
    /\ nested = NilMap
    /\ result = [map |-> [nil |-> FALSE, m |-> <<>>], err |-> nil]

\* flatten handed a string returned the error and left the entry alone
C13_WitnessScalar ==
    /\ flattenReturned
    /\ nested = Str(<<"x">>)
    /\ result.err = NotValidInputError
    /\ flatmap = (<<"k">> :> Str(<<"v">>))

-----------------------------------------------------------------------------
(* C14 *)

\* the flat map as the input, the prefix and the policy alone give it when
\* no two leaf paths collide: no order of traversal enters
ExpectedFlat ==
    [K \in {ComposedKey(l.path) : l \in Leaves} |->
        (CHOOSE l \in Leaves : ComposedKey(l.path) = K).val]

\* C14: when no two distinct leaf paths compose to the same key, the map
\* Flatten returns is the same for every order in which the keys of each
\* map are visited: every run ends with the one map that the input, the
\* prefix and the policy determine, so any two runs end with equal maps.
C14_OrderIndependent ==
    (FlattenDone /\ NoCollision) => Flat = ExpectedFlat

\* the run on {"a":{"b":"c"},"e":"f"} that visited e first
C14_Witness ==
    /\ FlattenDone
    /\ NoCollision
    /\ nested = SampleNested
    /\ keyMerger = DotStyle
    /\ visited = <<<<Key(<<"e">>)>>, <<Key(<<"a">>), Key(<<"b">>)>>>>
    /\ Flat = ExpectedFlat

\* the run on the same input that visited a first
C14_WitnessOther ==
    /\ FlattenDone
    /\ NoCollision
    /\ nested = SampleNested
    /\ keyMerger = DotStyle
    /\ visited = <<<<Key(<<"a">>), Key(<<"b">>)>>, <<Key(<<"e">>)>>>>
    /\ Flat = ExpectedFlat

-----------------------------------------------------------------------------
(* C15 *)

\* the paths of the empty maps and sequences inside v, below path
RECURSIVE EmptiesOf(_, _)
EmptiesOf(v, path) ==
    IF v.kind = "map"
    THEN (IF v.m = <<>> /\ path # <<>> THEN {path} ELSE {})
         \cup UNION {EmptiesOf(v.m[k], Append(path, Key(k))) : k \in DOMAIN v.m}
    ELSE IF v.kind = "seq"
    THEN (IF v.elems = <<>> THEN {path} ELSE {})
         \cup UNION {EmptiesOf(v.elems[j], Append(path, Idx(j - 1))) :
                       j \in 1..Len(v.elems)}
    ELSE {}

\* C15: an empty map or sequence inside the input contributes no entry:
\* every entry of the map Flatten returns is the entry of a scalar leaf,
\* the key of an empty container is absent (unless a leaf composes to it),
\* and {"a":{}} and {"a":[]} both flatten to the empty map; so the result
\* depends on the leaves alone, not on the empty containers.
C15_EmptyContainersVanish ==
    FlattenDone =>
        /\ result.err = nil
        /\ DOMAIN Flat = {ComposedKey(l.path) : l \in Leaves}
        /\ \A K \in DOMAIN Flat : \E l \in Colliding(K) : Flat[K] = l.val
        /\ \A e \in EmptiesOf(nested, <<>>) :
              Colliding(ComposedKey(e)) = {} => ComposedKey(e) \notin DOMAIN Flat
        /\ nested \in {Map(<<"a">> :> EmptyMap), Map(<<"a">> :> Seq0(<<>>))} =>
              Flat = <<>> /\ ~result.map.nil

\* {"a":{}} has been flattened to the empty map
C15_Witness ==
    /\ call = "Flatten"
    /\ FlattenDone
    /\ nested = Map(<<"a">> :> EmptyMap)
    /\ Flat = <<>>

\* {"a":[]} has been flattened to the empty map
C15_WitnessSlice ==
    /\ call = "Flatten"
    /\ FlattenDone
    /\ nested = Map(<<"a">> :> Seq0(<<>>))
    /\ Flat = <<>>

\* an input with a leaf next to an empty map gave the entry of the leaf alone
C15_WitnessBeside ==
    /\ FlattenDone
    /\ nested = Map((<<"a">> :> EmptyMap) @@ (<<"b">> :> Str(<<"x">>)))
    /\ prefix = <<>>
    /\ Flat = (<<"b">> :> Str(<<"x">>))

-----------------------------------------------------------------------------

Init ==
    /\ \/ /\ call = "Flatten"
          /\ pc = "Flatten"
          /\ nestedstr = <<>>
          /\ nested \in Inputs
       \/ /\ call = "FlattenString"
          /\ pc = "FlattenString"
          /\ nestedstr \in Texts
          /\ nested = NilMap
    /\ prefix \in Prefixes
    /\ keyMerger \in Mergers
    /\ flatmap = <<>>
    /\ stack = <<>>
    /\ result = [map |-> [nil |-> TRUE, m |-> <<>>], err |-> nil]
    /\ resultstr = [str |-> <<>>, err |-> nil]
    /\ decoded = FALSE
    /\ visited = <<>>

\* the values and accumulators flatten itself is called with
StepValues == Scalars \cup {Null, Bool(TRUE)} \cup TreesOfSize(2)
Accumulators == {<<>>, <<"k">> :> Str(<<"v">>)}

\* a call of flatten itself, with any value as its container
InitFlatten ==
    /\ call = "flatten"
    /\ pc = "flatten"
    /\ nestedstr = <<>>
    /\ nested \in StepValues
    /\ prefix \in Prefixes
    /\ keyMerger \in Mergers
    /\ flatmap \in Accumulators
    /\ \E top \in BOOLEAN : stack = <<Frame(top, nested, prefix, <<>>)>>
    /\ result = [map |-> [nil |-> TRUE, m |-> <<>>], err |-> nil]
    /\ resultstr = [str |-> <<>>, err |-> nil]
    /\ decoded = FALSE
    /\ visited = <<>>

Next ==
    \/ FlattenString
    \/ FlattenStringUnmarshal
    \/ FlattenStringMarshal
    \/ Flatten
    \/ flattenMap
    \/ flattenSlice
    \/ flattenReturn

Spec == Init /\ [][Next]_vars

\* the two entry points and flatten called by itself
SpecWithFlatten == (Init \/ InitFlatten) /\ [][Next]_vars

=============================================================================
